---- MODULE Spec2Model ----
(***************************************************************************)
(* The VGA text-mode writer of src/vga_buffer.rs: a Writer over the 80x25  *)
(* character grid, its write_byte / new_line / clear_row / write_string    *)
(* operations and the fmt::Write adapter.                                  *)
(***************************************************************************)
EXTENDS Integers, Sequences, FiniteSets, TLC

\* ------------------------------------------------------------ geometry
BUFFER_HEIGHT == 25
BUFFER_WIDTH == 80

\* ------------------------------------------------------------ bounds
\* Number of API calls a caller makes in the free exploration (Spec, SpecStr).
MaxCalls == 2
\* Length of the byte feeds written one write_byte at a time (SpecRun).
MaxRun == 165
\* Number of API calls a caller makes step by step (SpecStep).
MaxStepCalls == 1

\* ------------------------------------------------------------ bytes
Byte == 0..255
NEWLINE == 10
SPACE == 32
PLACEHOLDER == 254

\* Variant: the newline alternative of the arm is missing (0x20..=0x7e only).
IsPrintableOrNewline_no_newline(byte) == 32 <= byte /\ byte <= 126

\* Variant: the printable range taken one too far (0x20..=0x7f).
IsPrintableOrNewline_through_del(byte) == (32 <= byte /\ byte <= 127) \/ byte = NEWLINE

\* The arm `0x20..=0x7e | b'\n'` of write_string's match.
IsPrintableOrNewline(byte) == (32 <= byte /\ byte <= 126) \/ byte = NEWLINE

Printable == 32..126

\* The bytes s.bytes() can yield: a &str is valid UTF-8, in which 0xC0, 0xC1
\* and 0xF5..0xFF never occur.
StrByte == (0..191) \cup (194..244)

\* ------------------------------------------------------------ colors
Color ==
  [Black |-> 0, Blue |-> 1, Green |-> 2, Cyan |-> 3, Red |-> 4, Magenta |-> 5,
   Brown |-> 6, LightGray |-> 7, DarkGray |-> 8, LightBlue |-> 9,
   LightGreen |-> 10, LightCyan |-> 11, LightRed |-> 12, Pink |-> 13,
   Yellow |-> 14, White |-> 15]

ColorValues == {Color[n] : n \in DOMAIN Color}

\* Bitwise OR of two naturals, bit by bit.
RECURSIVE BitOr(_, _)
BitOr(a, b) ==
  IF a = 0 THEN b
  ELSE IF b = 0 THEN a
  ELSE (IF (a % 2 = 1) \/ (b % 2 = 1) THEN 1 ELSE 0) + 2 * BitOr(a \div 2, b \div 2)

\* u8 << 4: the bits shifted out of the byte are lost.
Shl4(x) == (x * 16) % 256

\* Variant: the two colors are packed the other way round.
ColorCode_new_swapped(foreground, background) == BitOr(Shl4(foreground), background)

\* ColorCode::new: (background as u8) << 4 | (foreground as u8)
ColorCode_new(foreground, background) == BitOr(Shl4(background), foreground)

\* ------------------------------------------------------------ cells and grid
ScreenChar(ascii_character, color_code) ==
  [ascii_character |-> ascii_character, color_code |-> color_code]

Rows == 0..(BUFFER_HEIGHT - 1)
Cols == 0..(BUFFER_WIDTH - 1)

\* Rust's checked indexing of chars[row][col].
InBounds(row, col) == row \in Rows /\ col \in Cols

\* The same for every column 0..BUFFER_WIDTH-1 of a row, as the `for col`
\* loops index it.
RowInBounds(row) == InBounds(row, 0) /\ InBounds(row, BUFFER_WIDTH - 1)

\* ------------------------------------------------------------ the writer
\* A writer value while an operation runs: the three fields of Writer, and a
\* record of what the running API call has done to the grid so far:
\*   writes   number of write_byte invocations
\*   stamped  the cell writes of write_byte (line 80), in order
\*   scrolls  number of new_line invocations
\*   copied   number of cells written by new_line's shift (line 93)
\*   cleared  number of cells written by clear_row (line 106)
\*   panic    an index was out of bounds (the call aborted there)
\*   snaps    the last row as it was when each new_line began, in order
Enter(col, cc, buf) ==
  [column_position |-> col, color_code |-> cc, buffer |-> buf,
   writes |-> 0, stamped |-> << >>, scrolls |-> 0, copied |-> 0, cleared |-> 0,
   panic |-> FALSE, snaps |-> << >>]

\* Variant: the blank keeps the color of the cell it replaces.
clear_row_keep_color(m, row) ==
  IF m.panic THEN m
  ELSE IF ~RowInBounds(row) THEN [m EXCEPT !.panic = TRUE]
  ELSE [m EXCEPT !.buffer[row] =
                   [col \in Cols |-> ScreenChar(SPACE, m.buffer[row][col].color_code)],
                 !.cleared = @ + BUFFER_WIDTH]

\* Variant: the loop stops one column short of the row's end.
clear_row_short(m, row) ==
  IF m.panic THEN m
  ELSE IF ~RowInBounds(row) THEN [m EXCEPT !.panic = TRUE]
  ELSE [m EXCEPT !.buffer[row] =
                   [col \in Cols |-> IF col < BUFFER_WIDTH - 1
                                     THEN ScreenChar(SPACE, m.color_code)
                                     ELSE m.buffer[row][col]],
                 !.cleared = @ + BUFFER_WIDTH - 1]

\* clear_row: every cell of the row becomes a blank in the writer's color.
clear_row(m, row) ==
  IF m.panic THEN m
  ELSE IF ~RowInBounds(row) THEN [m EXCEPT !.panic = TRUE]
  ELSE LET blank == ScreenChar(SPACE, m.color_code)
       IN [m EXCEPT !.buffer[row] = [col \in Cols |-> blank],
                    !.cleared = @ + BUFFER_WIDTH]

\* Variant: the copy goes the wrong way (row - 1 is read, row is written).
RECURSIVE shift_rows_down(_, _)
shift_rows_down(m, row) ==
  IF row >= BUFFER_HEIGHT THEN m
  ELSE shift_rows_down(
         [m EXCEPT !.buffer[row] = [col \in Cols |-> m.buffer[row - 1][col]],
                   !.copied = @ + BUFFER_WIDTH],
         row + 1)

\* The outer loop of new_line from `row` on: row by row, ascending, each cell
\* of the row is read and written to the row above.
RECURSIVE shift_rows(_, _)
shift_rows(m, row) ==
  IF m.panic \/ row >= BUFFER_HEIGHT THEN m
  ELSE IF ~RowInBounds(row) \/ ~RowInBounds(row - 1)
  THEN [m EXCEPT !.panic = TRUE]
  ELSE shift_rows(
         [m EXCEPT !.buffer[row - 1] = [col \in Cols |-> m.buffer[row][col]],
                   !.copied = @ + BUFFER_WIDTH],
         row + 1)

\* Variant: the column is not reset.
new_line_keep_column(m) ==
  IF m.panic THEN m
  ELSE LET shifted == shift_rows(m, 1)
           blanked == clear_row(shifted, BUFFER_HEIGHT - 1)
       IN [blanked EXCEPT !.scrolls = @ + 1,
                          !.snaps = Append(@, m.buffer[BUFFER_HEIGHT - 1])]

\* Variant: the shift starts one row too low (for row in 2..BUFFER_HEIGHT).
new_line_from_row_2(m) ==
  IF m.panic THEN m
  ELSE LET shifted == shift_rows(m, 2)
           blanked == clear_row(shifted, BUFFER_HEIGHT - 1)
       IN [blanked EXCEPT !.column_position = 0, !.scrolls = @ + 1,
                          !.snaps = Append(@, m.buffer[BUFFER_HEIGHT - 1])]

\* new_line: shift rows 1..24 up, clear the last row, column back to 0.
new_line(m) ==
  IF m.panic THEN m
  ELSE LET shifted == shift_rows(m, 1)
           blanked == clear_row(shifted, BUFFER_HEIGHT - 1)
       IN [blanked EXCEPT !.column_position = 0, !.scrolls = @ + 1,
                          !.snaps = Append(@, m.buffer[BUFFER_HEIGHT - 1])]

\* Variant: the line is advanced as soon as it is full, after the store,
\* instead of before the next one.
put_byte_eager_wrap(m, byte) ==
  LET row == BUFFER_HEIGHT - 1
      col == m.column_position
      ch == ScreenChar(byte, m.color_code)
  IN IF ~InBounds(row, col) THEN [m EXCEPT !.panic = TRUE]
     ELSE LET m1 == [m EXCEPT !.buffer[row][col] = ch,
                       !.stamped = Append(@, [row |-> row, col |-> col, ch |-> ch]),
                       !.column_position = @ + 1]
          IN IF m1.column_position >= BUFFER_WIDTH THEN new_line(m1) ELSE m1

\* Variant: the full-line test is off by one (> for >=) and the store is an
\* unchecked one, as through a raw pointer.
put_byte_off_by_one(m, byte) ==
  LET m1 == IF m.column_position > BUFFER_WIDTH THEN new_line(m) ELSE m
      row == BUFFER_HEIGHT - 1
      col == m1.column_position
      ch == ScreenChar(byte, m1.color_code)
  IN [m1 EXCEPT !.buffer = IF InBounds(row, col)
                           THEN [@ EXCEPT ![row][col] = ch] ELSE @,
                !.stamped = Append(@, [row |-> row, col |-> col, ch |-> ch]),
                !.column_position = @ + 1]

\* Variant: the full-line test is off by one (> for >=), the store checked.
put_byte_late_test(m, byte) ==
  LET m1 == IF m.column_position > BUFFER_WIDTH THEN new_line(m) ELSE m
      row == BUFFER_HEIGHT - 1
      col == m1.column_position
      ch == ScreenChar(byte, m1.color_code)
  IN IF ~InBounds(row, col) THEN [m1 EXCEPT !.panic = TRUE]
     ELSE [m1 EXCEPT !.buffer[row][col] = ch,
                     !.stamped = Append(@, [row |-> row, col |-> col, ch |-> ch]),
                     !.column_position = @ + 1]

\* The non-newline arm of write_byte.
put_byte(m, byte) ==
  LET m1 == IF m.column_position >= BUFFER_WIDTH THEN new_line(m) ELSE m
      row == BUFFER_HEIGHT - 1
      col == m1.column_position
      ch == ScreenChar(byte, m1.color_code)
  IN IF ~InBounds(row, col) THEN [m1 EXCEPT !.panic = TRUE]
     ELSE [m1 EXCEPT !.buffer[row][col] = ch,
                     !.stamped = Append(@, [row |-> row, col |-> col, ch |-> ch]),
                     !.column_position = @ + 1]

\* write_byte
write_byte(m, byte) ==
  IF m.panic THEN m
  ELSE LET m0 == [m EXCEPT !.writes = @ + 1]
       IN IF byte = NEWLINE THEN new_line(m0) ELSE put_byte(m0, byte)

\* Variant: every byte is passed on as it is, nothing is replaced.
write_string_byte_raw(m, byte) == write_byte(m, byte)

\* Variant: a byte outside the printable range is skipped, not replaced.
write_string_byte_drop(m, byte) ==
  IF IsPrintableOrNewline(byte) THEN write_byte(m, byte) ELSE m

\* The body of write_string's loop for one byte.
write_string_byte(m, byte) ==
  IF IsPrintableOrNewline(byte) THEN write_byte(m, byte)
  ELSE write_byte(m, PLACEHOLDER)

\* write_string's loop over s.bytes() from index i on.
RECURSIVE write_string_from(_, _, _)
write_string_from(m, s, i) ==
  IF m.panic \/ i > Len(s) THEN m
  ELSE write_string_from(write_string_byte(m, s[i]), s, i + 1)

\* Variant: a call that ends past the last column advances the line before it
\* returns.
write_string_flush(m, s) ==
  LET done == write_string_from(m, s, 1)
  IN IF done.column_position >= BUFFER_WIDTH THEN new_line(done) ELSE done

write_string(m, s) == write_string_from(m, s, 1)

\* Variant: a text with a byte that had to be replaced is reported as an error.
write_str_strict(m, s) ==
  [writer |-> write_string(m, s),
   result |-> IF \E i \in 1..Len(s) : ~IsPrintableOrNewline(s[i])
              THEN "Err" ELSE "Ok"]

\* fmt::Write::write_str: forwards to write_string and returns Ok(()).
write_str(m, s) == [writer |-> write_string(m, s), result |-> "Ok"]

\* ------------------------------------------------------------ state
VARIABLES
  column_position,  \* Writer.column_position
  color_code,       \* Writer.color_code
  buffer,           \* the grid behind Writer.buffer
  call,             \* the last API call: its name, argument, and what it did
  calls,            \* number of API calls made since construction
  advances,         \* number of new_line invocations since construction
  feed,             \* SpecRun, SpecPrint: what the caller writes, call by call
  history,          \* the last row as it was when each new_line began
  run               \* SpecStep: where the call in progress stands

vars ==
  <<column_position, color_code, buffer, call, calls, advances, feed, history,
    run>>

\* ------------------------------------------------------------ inputs
\* Grid contents at construction: the memory at 0xb8000 is whatever was there.
BlankGrid == [row \in Rows |-> [col \in Cols |-> ScreenChar(SPACE, 7)]]

\* Printable glyphs, every row different from every other, a color per row.
PatternGrid ==
  [row \in Rows |-> [col \in Cols |->
     ScreenChar(33 + ((row * 7 + col) % 94), (row * 9 + 1) % 256)]]

\* Arbitrary bytes, control bytes and newlines among them.
GarbageGrid ==
  [row \in Rows |-> [col \in Cols |->
     ScreenChar(((row * 80 + col) * 37) % 256, (row + 3 * col) % 256)]]

CleanGrids == {BlankGrid, PatternGrid}
InitGrids == CleanGrids \cup {GarbageGrid}

InitColors ==
  {ColorCode_new(Color.Yellow, Color.Black), ColorCode_new(Color.White, Color.Blue)}

Fill(byte, n) == [i \in 1..n |-> byte]

\* Bytes a caller passes to write_byte directly.
Bytes == {NEWLINE, 65, 9, 255}

\* Texts a caller passes to write_string: empty, newline, "A", "e-acute" (two
\* bytes of UTF-8), the edges of the printable range, and lines of 79 and 80.
Strings ==
  {<< >>, <<NEWLINE>>, <<65>>, <<195, 169>>, <<31, 32, 126, 127>>,
   Fill(72, BUFFER_WIDTH - 1), Fill(104, BUFFER_WIDTH)}

\* Chunks the formatter hands to write_str.
Chunks == {<<52, 50>>, <<NEWLINE>>, <<226, 130, 172>>}

\* Feeds for SpecRun: MaxRun bytes each.
CycleFeed == [i \in 1..MaxRun |-> 33 + ((i * 7) % 94)]
RawFeed == [i \in 1..MaxRun |-> IF i % 2 = 0 THEN 0 ELSE 255]
NewlineAt(s, k) == [i \in 1..Len(s) |-> IF i = k THEN NEWLINE ELSE s[i]]

\* Short lines, each different from the 93 before it: a newline every fifth
\* byte.
LinesFeed ==
  [i \in 1..MaxRun |-> IF i % 5 = 0 THEN NEWLINE ELSE 33 + ((i * 7) % 94)]

Feeds ==
  {CycleFeed, RawFeed, LinesFeed,
   NewlineAt(CycleFeed, BUFFER_WIDTH + 1),
   NewlineAt(NewlineAt(CycleFeed, 6), BUFFER_WIDTH + 6)}

\* Scripts for SpecPrint: the calls of a caller, in order.
ByteCall(byte) == [op |-> "write_byte", arg |-> <<byte>>]
StringCall(s) == [op |-> "write_string", arg |-> s]
FmtCall(s) == [op |-> "write_str", arg |-> s]

\* "ello! ", "The numbers are ", "42", " and ", "0.", "3333333333333333"
TextEllo == <<101, 108, 108, 111, 33, 32>>
TextTheNumbersAre ==
  <<84, 104, 101, 32, 110, 117, 109, 98, 101, 114, 115, 32, 97, 114, 101, 32>>
Text42 == <<52, 50>>
TextAnd == <<32, 97, 110, 100, 32>>
TextZeroPoint == <<48, 46>>
TextThrees == Fill(51, 16)

\* print_something: write_byte(b'H'), write_string("ello! "), and the chunks
\* write! hands to write_str for "The numbers are {} and {}", 42, 1.0/3.0.
PrintSomething ==
  <<ByteCall(72), StringCall(TextEllo), FmtCall(TextTheNumbersAre),
    FmtCall(Text42), FmtCall(TextAnd), FmtCall(TextZeroPoint \o TextThrees)>>

\* The same with the fraction in two chunks.
PrintSomethingSplit ==
  <<ByteCall(72), StringCall(TextEllo), FmtCall(TextTheNumbersAre),
    FmtCall(Text42), FmtCall(TextAnd), FmtCall(TextZeroPoint),
    FmtCall(TextThrees)>>

\* A text of n printable characters, no two neighbours alike.
Line(n) == [i \in 1..n |-> 33 + ((i * 7) % 94)]

\* A text written as write_string of its first k bytes and write_str of the
\* rest, and as write_byte of its first byte and write_string of the rest.
CutAt(s, k) == <<StringCall(SubSeq(s, 1, k)), FmtCall(SubSeq(s, k + 1, Len(s)))>>
HeadFirst(s) == <<ByteCall(s[1]), StringCall(SubSeq(s, 2, Len(s)))>>

Scripts ==
  {PrintSomething, PrintSomethingSplit}
  \cup {CutAt(Line(n), k) : n \in {BUFFER_WIDTH - 1, BUFFER_WIDTH},
                            k \in {0, 1, BUFFER_WIDTH \div 2, BUFFER_WIDTH - 1}}
  \cup {HeadFirst(Line(n)) : n \in {BUFFER_WIDTH - 1, BUFFER_WIDTH}}
  \cup {<<StringCall(Line(BUFFER_WIDTH)), ByteCall(72)>>}

\* No call is in progress.
Idle == [pc |-> "idle"]

\* ------------------------------------------------------------ construction
Constructed ==
  /\ column_position = 0
  /\ color_code \in InitColors
  /\ call = [op |-> "new", arg |-> << >>, col0 |-> 0, writes |-> 0,
             stamped |-> << >>, scrolls |-> 0, copied |-> 0, cleared |-> 0,
             panic |-> FALSE, result |-> "none"]
  /\ calls = 0
  /\ advances = 0
  /\ history = << >>
  /\ run = Idle

Init ==
  /\ Constructed
  /\ buffer \in InitGrids
  /\ feed = << >>

InitStr ==
  /\ Constructed
  /\ buffer \in CleanGrids
  /\ feed = << >>

InitRun ==
  /\ Constructed
  /\ buffer \in InitGrids
  /\ feed \in Feeds

InitPrint ==
  /\ Constructed
  /\ buffer \in InitGrids
  /\ feed \in Scripts

InitStep ==
  /\ Init
  /\ color_code = ColorCode_new(Color.Yellow, Color.Black)

\* ------------------------------------------------------------ API calls
Self == Enter(column_position, color_code, buffer)

\* The writer after a call that ran to m, and the record of the call.
Return(op, arg, m, result) ==
  /\ column_position' = m.column_position
  /\ color_code' = m.color_code
  /\ buffer' = m.buffer
  /\ call' = [op |-> op, arg |-> arg, col0 |-> column_position,
              writes |-> m.writes, stamped |-> m.stamped, scrolls |-> m.scrolls,
              copied |-> m.copied, cleared |-> m.cleared, panic |-> m.panic,
              result |-> result]
  /\ calls' = calls + 1
  /\ advances' = advances + m.scrolls
  /\ history' = history \o m.snaps
  /\ UNCHANGED run

WriteByteCall(byte) ==
  /\ ~call.panic
  /\ calls < MaxCalls
  /\ Return("write_byte", <<byte>>, write_byte(Self, byte), "none")
  /\ UNCHANGED feed

WriteStringCall(s) ==
  /\ ~call.panic
  /\ calls < MaxCalls
  /\ Return("write_string", s, write_string(Self, s), "none")
  /\ UNCHANGED feed

WriteStrCall(s) ==
  /\ ~call.panic
  /\ calls < MaxCalls
  /\ LET r == write_str(Self, s) IN Return("write_str", s, r.writer, r.result)
  /\ UNCHANGED feed

\* The caller writes the next byte of its feed with write_byte.
FeedByte ==
  /\ ~call.panic
  /\ calls < Len(feed)
  /\ Return("write_byte", <<feed[calls + 1]>>, write_byte(Self, feed[calls + 1]), "none")
  /\ UNCHANGED feed

\* The caller makes the next call of its script.
FeedCall ==
  /\ ~call.panic
  /\ calls < Len(feed)
  /\ LET c == feed[calls + 1]
     IN \/ /\ c.op = "write_byte"
           /\ Return("write_byte", c.arg, write_byte(Self, c.arg[1]), "none")
        \/ /\ c.op = "write_string"
           /\ Return("write_string", c.arg, write_string(Self, c.arg), "none")
        \/ /\ c.op = "write_str"
           /\ LET r == write_str(Self, c.arg)
              IN Return("write_str", c.arg, r.writer, r.result)
  /\ UNCHANGED feed

\* ------------------------------------------------------------ step by step
\* The same calls, one loop iteration at a time (SpecStep). `run` holds the
\* call in progress: its name and argument, the index i of write_string's
\* loop, the glyph passed to write_byte, the row of new_line's loop, the
\* writer at entry, and the counts kept in `call`.

\* Calls made step by step.
StepTexts == {<<NEWLINE>>, <<65, NEWLINE, 195, 169>>, Fill(104, BUFFER_WIDTH) \o <<33>>}
StepChunks == {<<52, 50>>}
StepBytes == {NEWLINE, 9}

\* Variant: the row loop runs one row too far (1..=BUFFER_HEIGHT).
RowsLeft_inclusive(row) == row <= BUFFER_HEIGHT

\* `for row in 1..BUFFER_HEIGHT`: there is a row left to copy.
RowsLeft(row) == row < BUFFER_HEIGHT

\* `for byte in s.bytes()`: there is a byte left to write.
BytesLeft(s, i) == i <= Len(s)

\* A call is entered.
StepCall(op, s) ==
  /\ run.pc = "idle"
  /\ calls < MaxStepCalls
  /\ run' = [pc |-> "loop", op |-> op, s |-> s, i |-> 1, glyph |-> 0, row |-> 0,
             entry |-> Self, col0 |-> column_position, writes |-> 0,
             stamped |-> << >>, scrolls |-> 0, copied |-> 0, cleared |-> 0]
  /\ UNCHANGED <<column_position, color_code, buffer, call, calls, advances,
                 feed, history>>

\* write_string's match on the next byte and the call of write_byte; a direct
\* write_byte call passes its byte as it is.
StepNextByte ==
  /\ run.pc = "loop"
  /\ BytesLeft(run.s, run.i)
  /\ LET byte == run.s[run.i]
         glyph == IF run.op = "write_byte" \/ IsPrintableOrNewline(byte)
                  THEN byte ELSE PLACEHOLDER
     IN run' = [run EXCEPT !.pc = "write_byte", !.glyph = glyph, !.writes = @ + 1]
  /\ UNCHANGED <<column_position, color_code, buffer, call, calls, advances,
                 feed, history>>

\* write_byte's match and its full-line test: on to new_line or to the store.
StepWriteByte ==
  /\ run.pc = "write_byte"
  /\ IF run.glyph = NEWLINE \/ column_position >= BUFFER_WIDTH
     THEN /\ run' = [run EXCEPT !.pc = "shift", !.row = 1, !.scrolls = @ + 1]
          /\ history' = Append(history, buffer[BUFFER_HEIGHT - 1])
     ELSE /\ run' = [run EXCEPT !.pc = "store"]
          /\ UNCHANGED history
  /\ UNCHANGED <<column_position, color_code, buffer, call, calls, advances, feed>>

\* One iteration of new_line's row loop, or its end.
StepShiftRow ==
  /\ run.pc = "shift"
  /\ IF RowsLeft(run.row)
     THEN IF RowInBounds(run.row) /\ RowInBounds(run.row - 1)
          THEN /\ buffer' = [buffer EXCEPT ![run.row - 1] =
                               [col \in Cols |-> buffer[run.row][col]]]
               /\ run' = [run EXCEPT !.row = @ + 1, !.copied = @ + BUFFER_WIDTH]
          ELSE /\ run' = [run EXCEPT !.pc = "panic"]
               /\ UNCHANGED buffer
     ELSE /\ run' = [run EXCEPT !.pc = "clear"]
          /\ UNCHANGED buffer
  /\ UNCHANGED <<column_position, color_code, call, calls, advances, feed, history>>

\* clear_row(BUFFER_HEIGHT - 1) and the reset of the column; write_byte goes
\* on to its store unless the byte was the newline.
StepClearRow ==
  /\ run.pc = "clear"
  /\ buffer' = [buffer EXCEPT ![BUFFER_HEIGHT - 1] =
                  [col \in Cols |-> ScreenChar(SPACE, color_code)]]
  /\ column_position' = 0
  /\ run' = IF run.glyph = NEWLINE
            THEN [run EXCEPT !.pc = "loop", !.i = @ + 1, !.cleared = @ + BUFFER_WIDTH]
            ELSE [run EXCEPT !.pc = "store", !.cleared = @ + BUFFER_WIDTH]
  /\ UNCHANGED <<color_code, call, calls, advances, feed, history>>

\* write_byte's store and the increment of the column.
StepStore ==
  /\ run.pc = "store"
  /\ LET row == BUFFER_HEIGHT - 1
         col == column_position
         ch == ScreenChar(run.glyph, color_code)
     IN IF InBounds(row, col)
        THEN /\ buffer' = [buffer EXCEPT ![row][col] = ch]
             /\ column_position' = column_position + 1
             /\ run' = [run EXCEPT !.pc = "loop", !.i = @ + 1,
                          !.stamped = Append(@, [row |-> row, col |-> col, ch |-> ch])]
        ELSE /\ run' = [run EXCEPT !.pc = "panic"]
             /\ UNCHANGED <<buffer, column_position>>
  /\ UNCHANGED <<color_code, call, calls, advances, feed, history>>

\* The loop is over: the call returns.
StepReturn ==
  /\ run.pc = "loop"
  /\ ~BytesLeft(run.s, run.i)
  /\ call' = [op |-> run.op, arg |-> run.s, col0 |-> run.col0,
              writes |-> run.writes, stamped |-> run.stamped,
              scrolls |-> run.scrolls, copied |-> run.copied,
              cleared |-> run.cleared, panic |-> FALSE,
              result |-> IF run.op = "write_str" THEN "Ok" ELSE "none"]
  /\ calls' = calls + 1
  /\ advances' = advances + run.scrolls
  /\ run' = Idle
  /\ UNCHANGED <<column_position, color_code, buffer, feed, history>>

NextStep ==
  \/ \E byte \in StepBytes : StepCall("write_byte", <<byte>>)
  \/ \E s \in StepTexts : StepCall("write_string", s)
  \/ \E s \in StepChunks : StepCall("write_str", s)
  \/ StepNextByte
  \/ StepWriteByte
  \/ StepShiftRow
  \/ StepClearRow
  \/ StepStore
  \/ StepReturn

Next ==
  \/ \E byte \in Bytes : WriteByteCall(byte)
  \/ \E s \in Strings : WriteStringCall(s)
  \/ \E s \in Chunks : WriteStrCall(s)

NextStr ==
  \/ \E s \in Strings : WriteStringCall(s)
  \/ \E s \in Chunks : WriteStrCall(s)

NextRun == FeedByte

NextPrint == FeedCall

Spec == Init /\ [][Next]_vars
SpecStr == InitStr /\ [][NextStr]_vars
SpecRun == InitRun /\ [][NextRun]_vars
SpecPrint == InitPrint /\ [][NextPrint]_vars

\* The code runs on one thread and waits for nothing: a call in progress
\* takes its next step.
SpecStep == InitStep /\ [][NextStep]_vars /\ WF_vars(NextStep)

\* ------------------------------------------------------------ properties
BlankRow(cc) == [col \in Cols |-> ScreenChar(SPACE, cc)]
Displayable == Printable \cup {PLACEHOLDER}

\* C1: in every state reachable from a Writer constructed with column 0 by
\* write_byte and write_string calls, the write column is in 0..80.
C1_ColumnInRange == column_position \in 0..BUFFER_WIDTH

\* A call has left the column at 80: the line is full and not yet advanced.
C1_Witness == calls > 0 /\ column_position = BUFFER_WIDTH /\ call.scrolls = 0

\* C2: one line-advance, from any reachable grid: rows 0..23 hold what rows
\* 1..24 held, cell by cell (so what row 0 held is gone from row 0 whenever it
\* differed from row 1), and row 24 is 80 blanks in the writer's color.
C2_ScrollCorrect ==
  LET m == new_line(Self)
  IN /\ \A row \in 0..(BUFFER_HEIGHT - 2) : \A col \in Cols :
          m.buffer[row][col] = buffer[row + 1][col]
     /\ buffer[0] # buffer[1] => m.buffer[0] # buffer[0]
     /\ DOMAIN m.buffer[BUFFER_HEIGHT - 1] = Cols
     /\ \A col \in Cols :
          m.buffer[BUFFER_HEIGHT - 1][col] = ScreenChar(SPACE, color_code)
     /\ DOMAIN m.buffer = Rows
     /\ m.scrolls = 1

\* A newline was written over a grid whose rows all differed: the rows moved
\* up and the last row is blank.
C2_Witness ==
  /\ call.op = "write_byte" /\ call.arg = <<NEWLINE>> /\ call.scrolls = 1
  /\ calls = 1
  /\ \A row \in 0..(BUFFER_HEIGHT - 2) : buffer[row] = PatternGrid[row + 1]
  /\ buffer[BUFFER_HEIGHT - 1] = BlankRow(color_code)

\* C3: driven through write_string and write_str only, from a grid of
\* displayable glyphs, every glyph the call stored and every glyph in the
\* grid is printable ASCII or the placeholder 0xFE.
C3_GlyphsDisplayable ==
  /\ \A i \in 1..Len(call.stamped) :
       call.stamped[i].ch.ascii_character \in Displayable
  /\ \A row \in Rows : \A col \in Cols :
       buffer[row][col].ascii_character \in Displayable

\* A text with bytes on both sides of the printable range was written and
\* the placeholder is in the grid.
C3_Witness ==
  /\ call.op = "write_string" /\ call.arg = <<31, 32, 126, 127>>
  /\ \E i \in 1..Len(call.stamped) :
       call.stamped[i].ch.ascii_character = PLACEHOLDER

\* The caller of SpecRun has written no newline so far.
NoNewlineSoFar == \A i \in 1..calls : feed[i] # NEWLINE

\* C4 as stated: after N write_byte calls, none a newline, the column is
\* N mod 80 and there have been floor(N / 80) line-advances.
C4_Original ==
  (calls <= Len(feed) /\ NoNewlineSoFar) =>
    /\ column_position = calls % BUFFER_WIDTH
    /\ advances = calls \div BUFFER_WIDTH

\* C4, amended: after N >= 1 write_byte calls, none a newline, the column is
\* ((N - 1) mod 80) + 1 and there have been floor((N - 1) / 80) line-advances;
\* after none, the column is 0 and there has been no line-advance.
C4_ColumnCount ==
  (calls <= Len(feed) /\ NoNewlineSoFar) =>
    IF calls = 0
    THEN column_position = 0 /\ advances = 0
    ELSE /\ column_position = ((calls - 1) % BUFFER_WIDTH) + 1
         /\ advances = (calls - 1) \div BUFFER_WIDTH

\* 160 bytes written: the second full line stands, one line-advance so far.
C4_Witness ==
  /\ feed # << >> /\ NoNewlineSoFar /\ calls = 2 * BUFFER_WIDTH
  /\ column_position = BUFFER_WIDTH /\ advances = 1

\* The cells of a line of the feed: bytes from..from+79 in the writer's color.
FeedRow(from) == [col \in Cols |-> ScreenChar(feed[from + col], color_code)]

\* C5: 80 bytes, none a newline, from column 0 fill the last row with those
\* bytes, advance no line and leave the column at 80; the 81st byte advances
\* the line first (the full line is then row 23) and lands at column 0.
C5_Boundary ==
  (feed # << >> /\ NoNewlineSoFar) =>
    /\ calls <= BUFFER_WIDTH => advances = 0
    /\ calls = BUFFER_WIDTH =>
         /\ buffer[BUFFER_HEIGHT - 1] = FeedRow(1)
         /\ column_position = BUFFER_WIDTH
    /\ calls = BUFFER_WIDTH + 1 =>
         /\ advances = 1 /\ call.scrolls = 1
         /\ buffer[BUFFER_HEIGHT - 2] = FeedRow(1)
         /\ buffer[BUFFER_HEIGHT - 1] =
              [BlankRow(color_code) EXCEPT
                 ![0] = ScreenChar(feed[BUFFER_WIDTH + 1], color_code)]
         /\ call.stamped =
              <<[row |-> BUFFER_HEIGHT - 1, col |-> 0,
                 ch |-> ScreenChar(feed[BUFFER_WIDTH + 1], color_code)]>>
         /\ column_position = 1

\* The 81st byte has been written.
C5_Witness ==
  /\ feed # << >> /\ NoNewlineSoFar /\ calls = BUFFER_WIDTH + 1
  /\ advances = 1 /\ column_position = 1

\* C6: write_byte(newline), from every reachable writer (every column 0..80
\* among them), runs new_line exactly once, stores no cell of its own, and
\* leaves column 0 and the last row blank in the writer's color.
C6_Newline ==
  LET m == write_byte(Self, NEWLINE)
  IN /\ m.scrolls = 1 /\ m.writes = 1 /\ ~m.panic
     /\ m.stamped = << >>
     /\ m.copied = (BUFFER_HEIGHT - 1) * BUFFER_WIDTH
     /\ m.cleared = BUFFER_WIDTH
     /\ m.column_position = 0
     /\ m.buffer[BUFFER_HEIGHT - 1] = BlankRow(color_code)
     /\ m.color_code = color_code
     /\ call.arg = <<NEWLINE>> =>
          /\ call.scrolls = 1 /\ call.stamped = << >>
          /\ column_position = 0
          /\ buffer[BUFFER_HEIGHT - 1] = BlankRow(color_code)

\* A newline was written with the column at 80.
C6_Witness ==
  /\ call.op = "write_byte" /\ call.arg = <<NEWLINE>>
  /\ call.col0 = BUFFER_WIDTH /\ call.scrolls = 1
  /\ column_position = 0

\* C7: for a printable byte or the newline, write_string of that one byte
\* leaves the grid and the column that write_byte of it leaves, from every
\* reachable writer.
C7_StringAsByte ==
  \A byte \in Printable \cup {NEWLINE} :
    LET a == write_string(Self, <<byte>>)
        b == write_byte(Self, byte)
    IN /\ a.buffer = b.buffer
       /\ a.column_position = b.column_position
       /\ a.color_code = b.color_code

\* write_string of one printable byte has run and stored that byte.
C7_Witness ==
  /\ call.op = "write_string" /\ call.arg = <<65>>
  /\ call.col0 < BUFFER_WIDTH
  /\ buffer[BUFFER_HEIGHT - 1][call.col0] = ScreenChar(65, color_code)
  /\ column_position = call.col0 + 1

\* Where the next glyph goes: the column, or 0 after the forced line-advance.
NextColumn == IF column_position >= BUFFER_WIDTH THEN 0 ELSE column_position

\* C8: for a byte that is neither printable nor the newline, write_string of
\* that byte stores the placeholder 0xFE in the writer's color at the write
\* position of the last row (column 0 after the forced line-advance when the
\* column was 80); for every such byte a text can contain, what is stored is
\* not the byte itself.
C8_Placeholder ==
  \A byte \in Byte \ (Printable \cup {NEWLINE}) :
    LET m == write_string(Self, <<byte>>)
        ch == ScreenChar(PLACEHOLDER, color_code)
    IN /\ m.stamped = <<[row |-> BUFFER_HEIGHT - 1, col |-> NextColumn, ch |-> ch]>>
       /\ m.buffer[BUFFER_HEIGHT - 1][NextColumn] = ch
       /\ byte \in StrByte =>
            m.buffer[BUFFER_HEIGHT - 1][NextColumn].ascii_character # byte
       /\ m.scrolls = (IF column_position >= BUFFER_WIDTH THEN 1 ELSE 0)
       /\ m.column_position = NextColumn + 1
       /\ ~m.panic

\* The two bytes of a non-ASCII character were written with the column at 80:
\* the line advanced and two placeholders stand at columns 0 and 1.
C8_Witness ==
  /\ call.op = "write_string" /\ call.arg = <<195, 169>>
  /\ call.col0 = BUFFER_WIDTH /\ call.scrolls = 1
  /\ buffer[BUFFER_HEIGHT - 1][0] = ScreenChar(PLACEHOLDER, color_code)
  /\ buffer[BUFFER_HEIGHT - 1][1] = ScreenChar(PLACEHOLDER, color_code)

\* The glyph write_string passes to write_byte for a byte.
Glyph(byte) == IF byte \in Printable THEN byte ELSE PLACEHOLDER
NonNewlines(s) == SelectSeq(s, LAMBDA byte : byte # NEWLINE)
IsText(op) == op \in {"write_string", "write_str"}

\* C9 as stated: write_string stores as many glyph cells as the text has
\* bytes.
C9_Original == IsText(call.op) => Len(call.stamped) = Len(call.arg)

\* C9, amended: write_string calls write_byte exactly once for every byte of
\* the text, in order; every byte other than a newline stores exactly one
\* glyph cell (the byte, or the placeholder), and a newline stores none.
C9_OnePerByte ==
  IsText(call.op) =>
    /\ call.writes = Len(call.arg)
    /\ Len(call.stamped) = Len(NonNewlines(call.arg))
    /\ \A i \in 1..Len(call.stamped) :
         call.stamped[i].ch.ascii_character = Glyph(NonNewlines(call.arg)[i])
    /\ call.scrolls >= Len(call.arg) - Len(NonNewlines(call.arg))

\* A text of four bytes, two of them outside the printable range, stored four
\* glyph cells.
C9_Witness ==
  /\ call.op = "write_string" /\ call.arg = <<31, 32, 126, 127>>
  /\ Len(call.stamped) = 4 /\ call.writes = 4

AdvanceWrites(c) ==
  /\ c.scrolls = 1
  /\ c.copied = (BUFFER_HEIGHT - 1) * BUFFER_WIDTH
  /\ c.cleared = BUFFER_WIDTH
NoAdvanceWrites(c) == c.scrolls = 0 /\ c.copied = 0 /\ c.cleared = 0

\* C10 as stated: a write_byte call does one cell write or the writes of one
\* line-advance, never both.
C10_Original ==
  call.op = "write_byte" =>
    \/ Len(call.stamped) = 1 /\ NoAdvanceWrites(call)
    \/ Len(call.stamped) = 0 /\ AdvanceWrites(call)

\* C10, amended: a write_byte call does the writes of one line-advance and no
\* other (newline), or exactly one cell write and no other (another byte,
\* column below 80), or the writes of one line-advance followed by exactly one
\* cell write (another byte, column at 80); nothing else.
C10_WriteEffect ==
  call.op = "write_byte" =>
    /\ ~call.panic /\ call.writes = 1
    /\ IF call.arg = <<NEWLINE>>
       THEN Len(call.stamped) = 0 /\ AdvanceWrites(call)
       ELSE IF call.col0 < BUFFER_WIDTH
       THEN /\ NoAdvanceWrites(call)
            /\ call.stamped =
                 <<[row |-> BUFFER_HEIGHT - 1, col |-> call.col0,
                    ch |-> ScreenChar(call.arg[1], color_code)]>>
       ELSE /\ AdvanceWrites(call)
            /\ call.stamped =
                 <<[row |-> BUFFER_HEIGHT - 1, col |-> 0,
                    ch |-> ScreenChar(call.arg[1], color_code)]>>

\* A byte was written with the column at 80: one line-advance, then one cell.
C10_Witness ==
  /\ call.op = "write_byte" /\ call.arg # <<NEWLINE>>
  /\ call.col0 = BUFFER_WIDTH
  /\ call.scrolls = 1 /\ Len(call.stamped) = 1

\* C11: no index is out of bounds in any call reachable from a writer
\* constructed with column 0: no call aborts on an index, every cell write of
\* write_byte is at row 24 and a column in 0..79 (never 80), and none of the
\* calls a caller can make next aborts either.
C11_InBounds ==
  /\ ~call.panic
  /\ \A i \in 1..Len(call.stamped) :
       /\ call.stamped[i].row = BUFFER_HEIGHT - 1
       /\ call.stamped[i].col \in 0..(BUFFER_WIDTH - 1)
  /\ \A byte \in Bytes : ~write_byte(Self, byte).panic
  /\ ~new_line(Self).panic

\* A text of two bytes was written with the column at 79: a cell at column
\* 79, a line-advance, a cell at column 0.
C11_Witness ==
  /\ call.op = "write_string" /\ call.arg = <<195, 169>>
  /\ call.col0 = BUFFER_WIDTH - 1 /\ call.scrolls = 1 /\ ~call.panic
  /\ call.stamped[1].col = BUFFER_WIDTH - 1 /\ call.stamped[2].col = 0

\* C12: for all foreground F and background B of the 16 colors, the packed
\* byte is B * 16 + F: its low four bits are F, its high four bits are B, it
\* fits in 8 bits, and different pairs give different bytes; the writer's own
\* color is such a byte.
C12_ColorCode ==
  /\ ColorValues = 0..15
  /\ \A F \in ColorValues : \A B \in ColorValues :
       LET byte == ColorCode_new(F, B)
       IN /\ byte = B * 16 + F
          /\ byte % 16 = F
          /\ byte \div 16 = B
          /\ byte \in Byte
  /\ Cardinality({ColorCode_new(F, B) : F \in ColorValues, B \in ColorValues})
       = 16 * 16
  /\ color_code \in {ColorCode_new(Color.Yellow, Color.Black),
                      ColorCode_new(Color.White, Color.Blue)}
  /\ color_code \in {14, 31}

\* A cell was stored by a writer made with ColorCode::new(Yellow, Black): its
\* color byte has Yellow in the low and Black in the high four bits.
C12_Witness ==
  /\ color_code = ColorCode_new(Color.Yellow, Color.Black)
  /\ Len(call.stamped) > 0
  /\ call.stamped[1].ch.color_code % 16 = Color.Yellow
  /\ call.stamped[1].ch.color_code \div 16 = Color.Black

\* What a call leaves of the writer: column, color and grid.
Writer(m) == <<m.column_position, m.color_code, m.buffer>>

\* C13: write_str of a chunk, from every reachable writer, leaves what
\* write_string of the chunk leaves and returns Ok; no write_str call that
\* was made returned anything else.
C13_WriteStr ==
  /\ \A s \in Chunks \cup {<< >>, <<31, 32, 126, 127>>} :
       LET r == write_str(Self, s)
       IN /\ r.result = "Ok"
          /\ Writer(r.writer) = Writer(write_string(Self, s))
          /\ r.writer.stamped = write_string(Self, s).stamped
          /\ ~r.writer.panic
  /\ call.op = "write_str" => call.result = "Ok"

\* write_str was called with a chunk that is not ASCII, with the column at
\* 80: it returned Ok and three placeholders stand in the advanced line.
C13_Witness ==
  /\ call.op = "write_str" /\ call.arg = <<226, 130, 172>>
  /\ call.col0 = BUFFER_WIDTH /\ call.result = "Ok"
  /\ column_position = 3

\* The bytes the first n calls of the script have written, in order.
RECURSIVE WrittenBy(_)
WrittenBy(n) == IF n = 0 THEN << >> ELSE WrittenBy(n - 1) \o feed[n].arg
Written == WrittenBy(calls)
PlainText(s) == \A i \in 1..Len(s) : s[i] \in Printable

\* C14 as stated: L <= 80 printable characters written from column 0 through
\* any mix of write_byte, write_string and write_str stand in columns 0..L-1
\* of the last row in the order written and in the writer's color, no line
\* was advanced, and the column is L mod 80.
C14_Original ==
  (PlainText(Written) /\ Len(Written) <= BUFFER_WIDTH) =>
    /\ advances = 0
    /\ \A i \in 1..Len(Written) :
         buffer[BUFFER_HEIGHT - 1][i - 1] = ScreenChar(Written[i], color_code)
    /\ column_position = Len(Written) % BUFFER_WIDTH

\* C14, amended: the same, with the column equal to L (which is L mod 80 for
\* L < 80, and 80 for L = 80).
C14_Placement ==
  (PlainText(Written) /\ Len(Written) <= BUFFER_WIDTH) =>
    /\ advances = 0
    /\ \A i \in 1..Len(Written) :
         buffer[BUFFER_HEIGHT - 1][i - 1] = ScreenChar(Written[i], color_code)
    /\ column_position = Len(Written)
    /\ Len(Written) < BUFFER_WIDTH => column_position = Len(Written) % BUFFER_WIDTH

\* print_something has run in Yellow on Black: 48 characters from 'H' on.
C14_Witness ==
  /\ feed = PrintSomething /\ calls = Len(feed)
  /\ color_code = ColorCode_new(Color.Yellow, Color.Black)
  /\ Len(Written) = 48 /\ column_position = 48 /\ advances = 0
  /\ buffer[BUFFER_HEIGHT - 1][0] = ScreenChar(72, color_code)
  /\ buffer[BUFFER_HEIGHT - 1][47] = ScreenChar(51, color_code)

\* The last call was write_byte of a byte other than the newline, made with
\* the column below 80.
PlainWrite(c) ==
  c.op = "write_byte" /\ c.arg # <<NEWLINE>> /\ c.col0 < BUFFER_WIDTH

\* C15: write_byte of a byte other than the newline with the column c < 80
\* changes the cell of the last row at column c and nothing else of the grid,
\* adds one to the column and advances no line; a step that changes any of
\* rows 0..23 is a step with a line-advance.
C15_Frame ==
  [][/\ PlainWrite(call') =>
          /\ buffer' = [buffer EXCEPT ![BUFFER_HEIGHT - 1][column_position] =
                          ScreenChar(call'.arg[1], color_code)]
          /\ column_position' = column_position + 1
          /\ call'.scrolls = 0 /\ call'.copied = 0 /\ call'.cleared = 0
          /\ Len(call'.stamped) = 1
     /\ (\E row \in 0..(BUFFER_HEIGHT - 2) : buffer'[row] # buffer[row]) =>
          call'.scrolls >= 1]_vars

\* A byte was written with the column at 79: it stands there, the column is
\* 80, no line was advanced.
C15_Witness ==
  /\ PlainWrite(call) /\ call.col0 = BUFFER_WIDTH - 1
  /\ call.scrolls = 0 /\ column_position = BUFFER_WIDTH
  /\ buffer[BUFFER_HEIGHT - 1][BUFFER_WIDTH - 1] =
       ScreenChar(call.arg[1], color_code)

\* C16: the last row as it was when a new_line began stands unchanged in row
\* 24 - k once k new_lines have run from that one on, for k in 1..24,
\* whatever was written in between; from the 25th on no row holds it, unless a
\* later line with the same cells was written.
C16_ScrollHistory ==
  LET n == Len(history)
  IN /\ n = advances
     /\ \A k \in 1..(BUFFER_HEIGHT - 1) :
          k <= n => buffer[BUFFER_HEIGHT - 1 - k] = history[n - k + 1]
     /\ \A j \in 1..n :
          (/\ n - j + 1 >= BUFFER_HEIGHT
           /\ \A i \in (j + 1)..n : history[i] # history[j]
           /\ buffer[BUFFER_HEIGHT - 1] # history[j])
          => \A row \in Rows : buffer[row] # history[j]

\* 25 lines have been advanced: the second is in row 0, the first in no row.
C16_Witness ==
  /\ Len(history) = BUFFER_HEIGHT
  /\ buffer[0] = history[2]
  /\ \A row \in Rows : buffer[row] # history[1]
  /\ \A k \in 1..(BUFFER_HEIGHT - 1) :
       buffer[BUFFER_HEIGHT - 1 - k] = history[BUFFER_HEIGHT - k + 1]

\* Cell accesses of one new_line: a read and a write for each cell of 24
\* rows, and a write for each cell of the cleared row.
AdvanceAccesses == 2 * (BUFFER_HEIGHT - 1) * BUFFER_WIDTH + BUFFER_WIDTH

\* While a call is in progress its loops are within their ranges and its
\* work is bounded by the grid: at most one new_line and one store for each
\* byte passed to write_byte, each new_line at most 24 rows and one clear.
C17_Progress ==
  run.pc # "idle" =>
    /\ run.pc # "panic"
    /\ run.i \in 1..(Len(run.s) + 1)
    /\ run.writes \in {run.i - 1, run.i} /\ run.writes <= Len(run.s)
    /\ run.scrolls <= run.writes
    /\ Len(run.stamped) <= run.writes
    /\ run.copied <= run.scrolls * (BUFFER_HEIGHT - 1) * BUFFER_WIDTH
    /\ run.cleared <= run.scrolls * BUFFER_WIDTH
    /\ run.pc = "shift" => run.row \in 1..BUFFER_HEIGHT
    /\ 2 * run.copied + run.cleared + Len(run.stamped)
         <= Len(run.s) * (AdvanceAccesses + 1)

\* When the loop of a call is over every byte has been passed to write_byte
\* once, in order, and the writer is what the call leaves taken as a whole.
C17_Result ==
  (run.pc = "loop" /\ ~BytesLeft(run.s, run.i)) =>
    LET m == IF run.op = "write_byte" THEN write_byte(run.entry, run.s[1])
             ELSE write_string(run.entry, run.s)
    IN /\ run.writes = Len(run.s)
       /\ Writer(m) = <<column_position, color_code, buffer>>
       /\ m.stamped = run.stamped
       /\ m.scrolls = run.scrolls /\ m.copied = run.copied
       /\ m.cleared = run.cleared /\ m.writes = run.writes

\* C17: every call completes: write_string passes each byte of its text to
\* write_byte once, in order, each write_byte and new_line does a number of
\* cell accesses bounded by the grid, and a call in progress returns.
C17_Completes ==
  /\ [](C17_Progress /\ C17_Result)
  /\ (run.pc # "idle") ~> (run.pc = "idle")

\* write_string of 81 bytes has returned after a line-advance in its course.
C17_Witness ==
  /\ run.pc = "idle" /\ call.op = "write_string"
  /\ call.arg = Fill(104, BUFFER_WIDTH) \o <<33>>
  /\ call.writes = BUFFER_WIDTH + 1 /\ call.scrolls >= 1
  /\ call.copied = call.scrolls * (BUFFER_HEIGHT - 1) * BUFFER_WIDTH

\* C18: no call changes the writer's color, and every cell a call stores, a
\* glyph of write_byte or a blank of a line-advance, has that color.
C18_ColorKept ==
  [][/\ color_code' = color_code
     /\ \A i \in 1..Len(call'.stamped) :
          call'.stamped[i].ch.color_code = color_code
     /\ call'.scrolls > 0 =>
          \A col \in Cols :
            col >= column_position' =>
              buffer'[BUFFER_HEIGHT - 1][col] = ScreenChar(SPACE, color_code)
     /\ clear_row(Self, BUFFER_HEIGHT - 1).buffer[BUFFER_HEIGHT - 1]
          = BlankRow(color_code)
     /\ clear_row(Self, BUFFER_HEIGHT - 1).color_code = color_code]_vars

\* After two calls with a line-advance in the second the color is the one of
\* construction, on the glyphs stored and on the blanks of a row that had
\* another color.
C18_Witness ==
  /\ calls = 2 /\ call.scrolls = 1 /\ Len(call.stamped) = 2
  /\ color_code = ColorCode_new(Color.White, Color.Blue)
  /\ buffer[BUFFER_HEIGHT - 3][BUFFER_WIDTH - 1].color_code # color_code
  /\ buffer[BUFFER_HEIGHT - 1][0].color_code = color_code
  /\ buffer[BUFFER_HEIGHT - 1][BUFFER_WIDTH - 1] = ScreenChar(SPACE, color_code)

\* C19: once a line-advance has occurred, between calls the bottom row holds,
\* left of the write column, the glyphs written since the last line-advance,
\* in order, and from the write column on blanks in the writer's color.
C19_BottomRow ==
  advances >= 1 =>
    \A col \in Cols :
      buffer[BUFFER_HEIGHT - 1][col] =
        IF col >= column_position
        THEN ScreenChar(SPACE, color_code)
        ELSE ScreenChar(feed[calls - column_position + 1 + col], color_code)

\* Four glyphs into a line after several line-advances over a grid that was
\* full of glyphs: glyphs left of the write column, blanks from it on.
C19_Witness ==
  /\ advances >= 2 /\ column_position = 4
  /\ buffer[0] = PatternGrid[advances]
  /\ buffer[BUFFER_HEIGHT - 1][3] = ScreenChar(feed[calls], color_code)
  /\ feed[calls] # SPACE
  /\ \A col \in 4..(BUFFER_WIDTH - 1) :
       buffer[BUFFER_HEIGHT - 1][col] = ScreenChar(SPACE, color_code)

\* Texts a formatter may hand over as one chunk or as two. The writers they
\* are written from stand at columns 0 to BUFFER_WIDTH, so a piece ends at the
\* last column, past it, or short of it.
Pieces == {<< >>, <<NEWLINE>>, <<65>>, <<195, 169>>, <<52, 50>>}

\* C20: from every writer, write_string of s followed by t leaves the grid and
\* the column that write_string of s and then write_string of t leave, and the
\* same holds for the chunks of write_str. The records compared hold the
\* column, the color and the grid, and what the calls did to reach them.
C20_Chunking ==
  \A s \in Pieces : \A t \in Pieces :
    /\ write_string(Self, s \o t) = write_string(write_string(Self, s), t)
    /\ write_str(Self, s \o t) = write_str(write_str(Self, s).writer, t)

\* A line of BUFFER_WIDTH characters handed over as two halves stands in the
\* last row as it would after one call, the column past the row's end.
C20_Witness ==
  /\ feed = CutAt(Line(BUFFER_WIDTH), BUFFER_WIDTH \div 2)
  /\ calls = 2 /\ call.op = "write_str" /\ call.col0 = BUFFER_WIDTH \div 2
  /\ column_position = BUFFER_WIDTH /\ advances = 0
  /\ buffer[BUFFER_HEIGHT - 1]
       = write_string(Enter(0, color_code, buffer), Line(BUFFER_WIDTH))
           .buffer[BUFFER_HEIGHT - 1]
  /\ buffer[BUFFER_HEIGHT - 1][BUFFER_WIDTH - 1]
       = ScreenChar(Line(BUFFER_WIDTH)[BUFFER_WIDTH], color_code)

====
